---- MODULE Spec2Model ----
(***************************************************************************)
(* A model of the Adyen API client of adyen.go: the client structure, its  *)
(* constructors and setters, and the two request paths execute (backend    *)
(* API) and executeHpp (hosted payment page API).                          *)
(*                                                                         *)
(* A call is modelled at the grain of its blocking points: Begin builds    *)
(* the request (everything up to client.Do), Send puts it on the wire,     *)
(* Reply is client.Do returning, Finish reads the body and returns.  The   *)
(* lines a call writes to the Logger leave the program's state alone and   *)
(* are not recorded.                                                       *)
(***************************************************************************)
EXTENDS Integers, Sequences, FiniteSets, TLC

VARIABLES
    a,        \* the *Adyen instance: Credentials, Currency, MerchantAccount, Logger
    calls,    \* per caller: the position and locals of its execute/executeHpp call
    setCur,   \* history: argument of the most recent SetCurrency, or NotSet
    setAcct,  \* history: argument of the most recent SetMerchantAccount, or NotSet
    opts      \* history: the options the caller handed to the constructor

vars == <<a, calls, setCur, setAcct, opts>>

(***************************************************************************)
(* Bounds and input sets                                                   *)
(***************************************************************************)
MaxOptions == 2

\* Two callers share the instance: one through the gateway returned by
\* Payment(), one through the gateway returned by Recurring().
Callers == {"payment", "recurring"}

Environments == {"test", "live"}
Usernames == {"ws@Company.Test"}
Passwords == {"secret"}
Hmacs == {"skin-hmac"}
Currencies == {"EUR", "USD"}
Accounts == {"M1", "M2"}
Loggers == {"nil", "logger"}
Statuses == {200, 302, 404}
NotSet == "<not set>"

\* Request types: one the URL parser accepts, one it rejects (invalid escape).
RequestTypes == {"authorise", "%zz"}

(***************************************************************************)
(* Constants of adyen.go                                                   *)
(***************************************************************************)
DefaultCurrency == "EUR"
APIVersion == "v25"
PaymentService == "Payment"
RecurringService == "Recurring"

Services == {PaymentService, RecurringService}

(***************************************************************************)
(* Credentials and environment (credentials.go, environment.go)            *)
(***************************************************************************)
newCredentials(env, username, password) ==
    [Env |-> env, Username |-> username, Password |-> password, Hmac |-> ""]

newCredentialsWithHMAC(env, username, password, hmac) ==
    [Env |-> env, Username |-> username, Password |-> password, Hmac |-> hmac]

BaseURL(env, service, version) ==
    "https://pal-" \o env \o ".adyen.com/pal/servlet/" \o service \o "/" \o version

HppURL(env, requestType) ==
    "https://" \o env \o ".adyen.com/hpp/" \o requestType \o ".shtml"

(***************************************************************************)
(* Constructors                                                            *)
(***************************************************************************)
NewNoCurrency(env, username, password) ==
    [Credentials     |-> newCredentials(env, username, password),
     Currency        |-> "",
     MerchantAccount |-> "",
     Logger          |-> "nil"]

New(env, username, password) ==
    [Credentials     |-> newCredentials(env, username, password),
     Currency        |-> DefaultCurrency,
     MerchantAccount |-> "",
     Logger          |-> "nil"]

NewWithHMAC(env, username, password, hmac) ==
    [Credentials     |-> newCredentialsWithHMAC(env, username, password, hmac),
     Currency        |-> DefaultCurrency,
     MerchantAccount |-> "",
     Logger          |-> "nil"]

(***************************************************************************)
(* Getters and URL helpers: pure reads of the instance                     *)
(***************************************************************************)
GetCurrency(adyen) == adyen.Currency

GetMerchantAccount(adyen) == adyen.MerchantAccount

adyenURL(adyen, service, requestType) ==
    BaseURL(adyen.Credentials.Env, service, APIVersion) \o "/" \o requestType \o "/"

createHPPUrl(adyen, requestType) == HppURL(adyen.Credentials.Env, requestType)

(***************************************************************************)
(* Request entities and their two serializations                           *)
(*                                                                         *)
(* An entity of kind "struct" is a request structure; one of kind "chan"   *)
(* is a value neither encoder supports (requestEntity is interface{}).     *)
(***************************************************************************)
Entities ==
    { [kind |-> "struct", merchantAccount |-> "",   currency |-> ""],
      [kind |-> "struct", merchantAccount |-> "M1", currency |-> "USD"],
      [kind |-> "chan",   merchantAccount |-> "",   currency |-> ""] }

\* encoding/json: fields in declaration order, quoted; unsupported types fail.
jsonMarshal(e) ==
    IF e.kind = "struct"
    THEN [err  |-> "nil",
          text |-> "{\"merchantAccount\":\"" \o e.merchantAccount
                   \o "\",\"currency\":\"" \o e.currency \o "\"}"]
    ELSE [err |-> "json: unsupported type", text |-> ""]

\* go-querystring: a non-struct yields empty values and an error.
queryValues(e) ==
    IF e.kind = "struct"
    THEN [err |-> "nil",
          values |-> <<<<"merchantAccount", e.merchantAccount>>,
                       <<"currency", e.currency>>>>]
    ELSE [err |-> "query: Values() expects struct input", values |-> <<>>]

\* url.Values.Encode: key=value pairs joined by "&", sorted by key.
RECURSIVE joinPairs(_)
joinPairs(ps) ==
    IF Len(ps) = 0 THEN ""
    ELSE ps[1][1] \o "=" \o ps[1][2]
         \o (IF Len(ps) > 1 THEN "&" ELSE "") \o joinPairs(Tail(ps))

\* the keys of the entities, in the order Encode sorts them
KeyOrder == <<"currency", "merchantAccount">>

sortByKey(ps) ==
    LET pick(k) == SelectSeq(ps, LAMBDA p : p[1] = k)
    IN  pick(KeyOrder[1]) \o pick(KeyOrder[2])

Encode(values) == joinPairs(sortByKey(values))

(***************************************************************************)
(* net/http: requests                                                      *)
(***************************************************************************)
NoRequest ==
    [Method |-> "", URL |-> "", HasBody |-> FALSE, Body |-> "",
     ContentType |-> "", Authorization |-> ""]

QueryStrings == { Encode(queryValues(e).values) : e \in Entities }

\* URLs url.Parse rejects: those carrying the invalid escape "%zz".
RejectedURLs ==
    { BaseURL(env, s, APIVersion) \o "/%zz/" : env \in Environments, s \in Services }
    \cup { HppURL(env, "%zz") \o "?" \o q : env \in Environments, q \in QueryStrings }

\* http.NewRequest(method, url, body); hasBody is FALSE for a nil body
NewRequest(method, url, hasBody, body) ==
    IF url \in RejectedURLs
    THEN [err |-> "parse: invalid URL escape", req |-> NoRequest]
    ELSE [err |-> "nil",
          req |-> [Method |-> method, URL |-> url, HasBody |-> hasBody, Body |-> body,
                   ContentType |-> "", Authorization |-> ""]]

Base64(s) ==
    CASE s = "ws@Company.Test:secret" -> "d3NAQ29tcGFueS5UZXN0OnNlY3JldA=="
      [] OTHER -> "base64(" \o s \o ")"

\* Request.SetBasicAuth
basicAuth(username, password) == "Basic " \o Base64(username \o ":" \o password)

(***************************************************************************)
(* Response envelope (response.go)                                         *)
(***************************************************************************)
NilResponse == [Nil |-> TRUE, StatusCode |-> 0, Body |-> ""]

ReplyBody == "{}"

Response(status, body) == [Nil |-> FALSE, StatusCode |-> status, Body |-> body]

\* non-2xx statuses are failures
handleHTTPError(r) ==
    IF r.StatusCode \in 200..299 THEN "nil" ELSE "adyen: http error"

(***************************************************************************)
(* The request each path builds: adyen.go lines 131-147 and 189-194        *)
(***************************************************************************)
executeRequestInjectDefaults(adyen, service, method, entity) ==
    LET e == IF entity.kind = "struct" /\ entity.currency = ""
             THEN [entity EXCEPT !.currency = adyen.Currency]
             ELSE entity
        m == jsonMarshal(e)
        r == NewRequest("POST", adyenURL(adyen, service, method), TRUE, m.text)
    IN  IF m.err # "nil" THEN [err |-> m.err, req |-> NoRequest]
        ELSE IF r.err # "nil" THEN r
        ELSE [err |-> "nil",
              req |-> [r.req EXCEPT
                         !.ContentType = "application/json",
                         !.Authorization = basicAuth(adyen.Credentials.Username,
                                                     adyen.Credentials.Password)]]

executeRequest(adyen, service, method, entity) ==
    LET m == jsonMarshal(entity)
        r == NewRequest("POST", adyenURL(adyen, service, method), TRUE, m.text)
    IN  IF m.err # "nil" THEN [err |-> m.err, req |-> NoRequest]
        ELSE IF r.err # "nil" THEN r
        ELSE [err |-> "nil",
              req |-> [r.req EXCEPT
                         !.ContentType = "application/json",
                         !.Authorization = basicAuth(adyen.Credentials.Username,
                                                     adyen.Credentials.Password)]]

executeHppRequestSigned(adyen, method, entity) ==
    LET v == queryValues(entity)
        r == NewRequest("GET", createHPPUrl(adyen, method) \o "?" \o Encode(v.values),
                        FALSE, "")
    IN  IF r.err # "nil" THEN r
        ELSE [err |-> "nil",
              req |-> [r.req EXCEPT
                         !.Authorization = basicAuth(adyen.Credentials.Username,
                                                     adyen.Credentials.Password)]]

\* the error of query.Values is discarded (v, _ := ...)
executeHppRequest(adyen, method, entity) ==
    LET v == queryValues(entity)
    IN  NewRequest("GET", createHPPUrl(adyen, method) \o "?" \o Encode(v.values),
                   FALSE, "")

(***************************************************************************)
(* What each path returns once the network has answered: lines 150-183 and *)
(* 204-231.  net records what client.Do and the body read produced.  The   *)
(* deferred Body.Close assigns the local err after the results were        *)
(* evaluated (the results are unnamed), so closeErr never reaches the      *)
(* caller.                                                                 *)
(***************************************************************************)
Return(resp, err) == [Response |-> resp, Err |-> err]

executeReturnKeepsResponse(net, closeErr) ==
    IF net.transportErr THEN Return(NilResponse, "transport error")
    ELSE IF net.readErr THEN Return(NilResponse, "read error")
    ELSE LET providerResponse == Response(net.status, ReplyBody)
         IN  Return(providerResponse, handleHTTPError(providerResponse))

executeReturn(net, closeErr) ==
    IF net.transportErr THEN Return(NilResponse, "transport error")
    ELSE IF net.readErr THEN Return(NilResponse, "read error")
    ELSE LET providerResponse == Response(net.status, ReplyBody)
             err == handleHTTPError(providerResponse)
         IN  IF err # "nil" THEN Return(NilResponse, err)
             ELSE Return(providerResponse, "nil")

executeHppReturn(net, closeErr) ==
    IF net.transportErr THEN Return(NilResponse, "transport error")
    ELSE IF net.readErr THEN Return(NilResponse, "read error")
    ELSE Return(Response(net.status, ReplyBody), "nil")

\* a whole call run alone: request building, then the network, then the return
execute(adyen, service, method, entity, net, closeErr) ==
    LET b == executeRequest(adyen, service, method, entity)
    IN  IF b.err # "nil" THEN Return(NilResponse, b.err) ELSE executeReturn(net, closeErr)

executeHpp(adyen, method, entity, net, closeErr) ==
    LET b == executeHppRequest(adyen, method, entity)
    IN  IF b.err # "nil" THEN Return(NilResponse, b.err) ELSE executeHppReturn(net, closeErr)

(***************************************************************************)
(* State of one caller's call                                              *)
(***************************************************************************)
NoEntity == [kind |-> "none", merchantAccount |-> "", currency |-> ""]

NoNet == [transportErr |-> FALSE, status |-> 0, readErr |-> FALSE]

IdleCall ==
    [pc |-> "idle", fn |-> "none", service |-> "", method |-> "", entity |-> NoEntity,
     req |-> NoRequest, sends |-> 0, net |-> NoNet,
     ret |-> Return(NilResponse, "nil")]

CanStart(i) == calls[i].pc \in {"idle", "done"}

\* A call that returned before client.Do, or is ready for it.
Begun(fn, service, method, entity, b) ==
    [IdleCall EXCEPT
       !.pc = IF b.err # "nil" THEN "done" ELSE "built",
       !.fn = fn, !.service = service, !.method = method, !.entity = entity,
       !.req = b.req,
       !.ret = Return(NilResponse, b.err)]

(***************************************************************************)
(* Init: the instance as a constructor returns it                          *)
(***************************************************************************)
Init ==
    /\ \E env \in Environments, u \in Usernames, p \in Passwords :
          \/ a = New(env, u, p)
          \/ \E h \in Hmacs : a = NewWithHMAC(env, u, p, h)
    /\ calls = [i \in Callers |-> IdleCall]
    /\ setCur = NotSet
    /\ setAcct = NotSet
    /\ opts = <<>>

(***************************************************************************)
(* Configuration operations                                                *)
(***************************************************************************)
AttachLogger(Logger) ==
    /\ a' = [a EXCEPT !.Logger = Logger]
    /\ UNCHANGED <<calls, setCur, setAcct, opts>>

SetCurrencyClearsAccount(currency) ==
    /\ a' = [a EXCEPT !.Currency = currency, !.MerchantAccount = ""]
    /\ setCur' = currency
    /\ UNCHANGED <<calls, setAcct, opts>>

SetCurrency(currency) ==
    /\ a' = [a EXCEPT !.Currency = currency]
    /\ setCur' = currency
    /\ UNCHANGED <<calls, setAcct, opts>>

SetMerchantAccountAsUsername(account) ==
    /\ a' = [a EXCEPT !.MerchantAccount = account, !.Credentials.Username = account]
    /\ setAcct' = account
    /\ UNCHANGED <<calls, setCur, opts>>

SetMerchantAccount(account) ==
    /\ a' = [a EXCEPT !.MerchantAccount = account]
    /\ setAcct' = account
    /\ UNCHANGED <<calls, setCur, opts>>

(***************************************************************************)
(* execute                                                                 *)
(***************************************************************************)
\* lines 130-147: marshal, build the request, log it, set the headers
executeBeginRemembersAccount(i, service, method, entity) ==
    /\ CanStart(i)
    /\ calls' = [calls EXCEPT ![i] =
                   Begun("execute", service, method, entity,
                         executeRequest(a, service, method, entity))]
    /\ a' = [a EXCEPT !.MerchantAccount = entity.merchantAccount]
    /\ UNCHANGED <<setCur, setAcct, opts>>

executeBegin(i, service, method, entity) ==
    /\ CanStart(i)
    /\ calls' = [calls EXCEPT ![i] =
                   Begun("execute", service, method, entity,
                         executeRequest(a, service, method, entity))]
    /\ UNCHANGED <<a, setCur, setAcct, opts>>

\* lines 149-150: client.Do puts the request on the wire
executeSend(i) ==
    /\ calls[i].fn = "execute" /\ calls[i].pc = "built"
    /\ calls' = [calls EXCEPT ![i].pc = "wait", ![i].sends = @ + 1]
    /\ UNCHANGED <<a, setCur, setAcct, opts>>

\* lines 150-154 with a retry after a transport failure
executeReplyRetries(i) ==
    /\ calls[i].fn = "execute" /\ calls[i].pc = "wait"
    /\ \/ calls' = [calls EXCEPT ![i].sends = @ + 1]
       \/ \E status \in Statuses :
             calls' = [calls EXCEPT ![i].pc = "read", ![i].net.status = status]
    /\ UNCHANGED <<a, setCur, setAcct, opts>>

\* lines 150-154: client.Do returns a transport error or a response
executeReply(i) ==
    /\ calls[i].fn = "execute" /\ calls[i].pc = "wait"
    /\ \/ LET net == [calls[i].net EXCEPT !.transportErr = TRUE]
          IN  calls' = [calls EXCEPT ![i].pc = "done", ![i].net = net,
                                     ![i].ret = executeReturn(net, FALSE)]
       \/ \E status \in Statuses :
             calls' = [calls EXCEPT ![i].pc = "read", ![i].net.status = status]
    /\ UNCHANGED <<a, setCur, setAcct, opts>>

\* lines 156-183: read the body, log it, classify the status, close, return
executeFinish(i) ==
    /\ calls[i].fn = "execute" /\ calls[i].pc = "read"
    /\ \E readErr \in BOOLEAN, closeErr \in BOOLEAN :
          LET net == [calls[i].net EXCEPT !.readErr = readErr]
          IN  calls' = [calls EXCEPT
                          ![i].pc = "done", ![i].net = net,
                          ![i].ret = executeReturn(net, closeErr)]
    /\ UNCHANGED <<a, setCur, setAcct, opts>>

(***************************************************************************)
(* executeHpp                                                              *)
(***************************************************************************)
\* lines 188-201: build the URL with its query, build the request, log it
executeHppBegin(i, method, entity) ==
    /\ CanStart(i)
    /\ calls' = [calls EXCEPT ![i] =
                   Begun("executeHpp", "", method, entity,
                         executeHppRequest(a, method, entity))]
    /\ UNCHANGED <<a, setCur, setAcct, opts>>

\* lines 203-204
executeHppSend(i) ==
    /\ calls[i].fn = "executeHpp" /\ calls[i].pc = "built"
    /\ calls' = [calls EXCEPT ![i].pc = "wait", ![i].sends = @ + 1]
    /\ UNCHANGED <<a, setCur, setAcct, opts>>

\* lines 204-208
executeHppReply(i) ==
    /\ calls[i].fn = "executeHpp" /\ calls[i].pc = "wait"
    /\ \/ LET net == [calls[i].net EXCEPT !.transportErr = TRUE]
          IN  calls' = [calls EXCEPT ![i].pc = "done", ![i].net = net,
                                     ![i].ret = executeHppReturn(net, FALSE)]
       \/ \E status \in Statuses :
             calls' = [calls EXCEPT ![i].pc = "read", ![i].net.status = status]
    /\ UNCHANGED <<a, setCur, setAcct, opts>>

\* lines 210-231
executeHppFinish(i) ==
    /\ calls[i].fn = "executeHpp" /\ calls[i].pc = "read"
    /\ \E readErr \in BOOLEAN, closeErr \in BOOLEAN :
          LET net == [calls[i].net EXCEPT !.readErr = readErr]
          IN  calls' = [calls EXCEPT
                          ![i].pc = "done", ![i].net = net,
                          ![i].ret = executeHppReturn(net, closeErr)]
    /\ UNCHANGED <<a, setCur, setAcct, opts>>

\* lines 233-246: a gateway holds the instance itself (a pointer), and
\* passes its own service to execute
GatewayService(i) == IF i = "payment" THEN PaymentService ELSE RecurringService

(***************************************************************************)
(* Specifications                                                          *)
(***************************************************************************)
ConfigStep ==
    \/ \E l \in Loggers : AttachLogger(l)
    \/ \E c \in Currencies : SetCurrency(c)
    \/ \E m \in Accounts : SetMerchantAccount(m)

CallStep(i) ==
    \/ \E m \in RequestTypes, e \in Entities : executeBegin(i, GatewayService(i), m, e)
    \/ executeSend(i)
    \/ executeReply(i)
    \/ executeFinish(i)
    \/ \E m \in RequestTypes, e \in Entities : executeHppBegin(i, m, e)
    \/ executeHppSend(i)
    \/ executeHppReply(i)
    \/ executeHppFinish(i)

Next == ConfigStep \/ \E i \in Callers : CallStep(i)

Spec == Init /\ [][Next]_vars

(***************************************************************************)
(* Constructor options, as the tests of the package use them               *)
(* (New(Testing, "un", "pw", nil, option...)): an option is a function on  *)
(* the instance, written here as the assignments it makes.                 *)
(***************************************************************************)
WithTimeout(timeout) == << [field |-> "ClientTimeout", value |-> timeout] >>

WithCurrency(currency) == << [field |-> "Currency", value |-> currency] >>

\* TestNewWithCustomOptions: f1 and f2
f1 == << [field |-> "Currency", value |-> "JPY"],
         [field |-> "ClientTimeout", value |-> "21s"] >>

f2 == << [field |-> "MerchantAccount", value |-> "merch"] >>

Options == { WithTimeout("123s"), WithCurrency("USD"), f1, f2 }

OptionSeqs == UNION { [1..n -> Options] : n \in 0..MaxOptions }

Assign(adyen, asg) ==
    [f \in DOMAIN adyen \cup {asg.field} |->
        IF f = asg.field THEN asg.value ELSE adyen[f]]

RECURSIVE ApplyAssignments(_, _)
ApplyAssignments(adyen, asgs) ==
    IF Len(asgs) = 0 THEN adyen
    ELSE ApplyAssignments(Assign(adyen, asgs[1]), Tail(asgs))

RECURSIVE ApplyOptions(_, _)
ApplyOptions(adyen, os) ==
    IF Len(os) = 0 THEN adyen
    ELSE ApplyOptions(ApplyAssignments(adyen, os[1]), Tail(os))

\* The constructor called with options: New of adyen.go has the parameters
\* env, username and password only, so the options reach no code.
InitOptions ==
    /\ \E env \in Environments, u \in Usernames, p \in Passwords : a = New(env, u, p)
    /\ opts \in OptionSeqs
    /\ calls = [i \in Callers |-> IdleCall]
    /\ setCur = NotSet
    /\ setAcct = NotSet

OptSpec == InitOptions /\ [][ConfigStep]_vars

(***************************************************************************)
(* Properties                                                              *)
(***************************************************************************)
Replied(c) == c.pc = "done" /\ ~c.net.transportErr /\ ~c.net.readErr /\ c.net.status # 0

Failed(r) == r.Err # "nil" /\ r.Response.Nil

Succeeded(r) == r.Err = "nil" /\ ~r.Response.Nil

\* C1: on both paths, a reply with a non-2xx status comes back to the caller
\* as a failure: a non-nil error and no response.
C1_Non2xxIsFailure ==
    \A i \in Callers :
        Replied(calls[i]) /\ calls[i].net.status \notin 200..299
            => Failed(calls[i].ret)

\* C2: a request execute sent is a POST with a JSON body, Content-Type
\* application/json and basic auth from the instance's username and password;
\* a request executeHpp sent is a GET with no body, the parameters encoded in
\* the query string, and no Authorization header.
C2_RequestShape ==
    \A i \in Callers :
        LET c == calls[i] IN
        c.sends > 0 =>
            /\ c.fn = "execute" =>
                  /\ c.req.Method = "POST"
                  /\ c.req.HasBody /\ c.req.Body = jsonMarshal(c.entity).text
                  /\ c.req.Body # ""
                  /\ c.req.ContentType = "application/json"
                  /\ c.req.Authorization =
                        "Basic " \o Base64(a.Credentials.Username \o ":"
                                           \o a.Credentials.Password)
                  /\ c.req.URL = adyenURL(a, c.service, c.method)
            /\ c.fn = "executeHpp" =>
                  /\ c.req.Method = "GET"
                  /\ ~c.req.HasBody /\ c.req.Body = ""
                  /\ c.req.ContentType = ""
                  /\ c.req.Authorization = ""
                  /\ c.req.URL = createHPPUrl(a, c.method) \o "?"
                                    \o Encode(queryValues(c.entity).values)

C2_Witness ==
    \E i, j \in Callers :
        /\ calls[i].fn = "execute" /\ calls[i].sends = 1
        /\ calls[j].fn = "executeHpp" /\ calls[j].sends = 1
        /\ calls[j].entity.kind = "struct"

\* C3: the instance New returns is the default instance with the options the
\* caller passed applied in order.
Constructed == setCur = NotSet /\ setAcct = NotSet /\ a.Logger = "nil"

C3_OptionsRoundTrip ==
    Constructed =>
        a = ApplyOptions(New(a.Credentials.Env, a.Credentials.Username,
                             a.Credentials.Password), opts)

WithDefaults(c, m) == [a EXCEPT !.Currency = c, !.MerchantAccount = m]

Built(c) == c.pc \in {"built", "wait", "read", "done"} /\ c.req # NoRequest

QueryOf(c) == Encode(queryValues(c.entity).values)

C5_DefaultsNotInjected ==
    /\ \A i \in Callers :
          Built(calls[i]) =>
             \A c \in Currencies \cup {""}, m \in Accounts \cup {""} :
                calls[i].req =
                   IF calls[i].fn = "execute"
                   THEN executeRequest(WithDefaults(c, m), calls[i].service,
                                       calls[i].method, calls[i].entity).req
                   ELSE executeHppRequest(WithDefaults(c, m), calls[i].method,
                                          calls[i].entity).req
    /\ \A i, j \in Callers :
          /\ Built(calls[i]) /\ Built(calls[j])
          /\ calls[i].fn = calls[j].fn
          /\ calls[i].entity = calls[j].entity
          /\ calls[i].method = calls[j].method
          => /\ calls[i].req.Body = calls[j].req.Body
             /\ calls[i].fn = "executeHpp" => calls[i].req.URL = calls[j].req.URL

C5_Witness ==
    /\ a.Currency = "USD" /\ a.MerchantAccount = "M2"
    /\ \E i, j \in Callers :
          /\ i # j
          /\ calls[i].sends = 1 /\ calls[j].sends = 1
          /\ calls[i].fn = "execute" /\ calls[j].fn = "execute"
          /\ calls[i].entity = calls[j].entity
          /\ calls[i].entity.kind = "struct" /\ calls[i].entity.currency = ""
          /\ calls[i].req.Body = "{\"merchantAccount\":\"\",\"currency\":\"\"}"

\* C6: no operation on the instance changes its credentials (username,
\* password, HMAC key, environment).
C6_CredentialsImmutable == [][a'.Credentials = a.Credentials]_vars

C6_Witness ==
    /\ setCur # NotSet /\ setAcct # NotSet /\ a.Logger # "nil"
    /\ a.Credentials.Hmac # ""
    /\ \E i, j \in Callers :
          /\ calls[i].fn = "execute" /\ calls[i].pc = "done" /\ calls[i].sends = 1
          /\ calls[j].fn = "executeHpp" /\ calls[j].pc = "done" /\ calls[j].sends = 1

\* C7: the steps of a call never write the instance, and a call that has
\* returned, however its steps were interleaved with the other caller's and
\* with the setters, returned what the same call returns when run alone with
\* the same request and the same reply.
Alone(c, closeErr) ==
    IF c.fn = "execute"
    THEN execute(a, c.service, c.method, c.entity, c.net, closeErr)
    ELSE executeHpp(a, c.method, c.entity, c.net, closeErr)

C7_CallsShareNoMutableState ==
    /\ [](\A i \in Callers :
             calls[i].pc = "done" =>
                \A closeErr \in BOOLEAN : calls[i].ret = Alone(calls[i], closeErr))
    /\ [][calls' # calls => a' = a]_vars

C7_Witness ==
    /\ Succeeded(calls["payment"].ret) /\ calls["payment"].pc = "done"
    /\ calls["payment"].fn = "execute"
    /\ calls["recurring"].pc = "read" /\ calls["recurring"].fn = "execute"
    /\ a.MerchantAccount = "M2" /\ a.Logger # "nil"

\* C8: until SetCurrency is called the instance's currency is "EUR", and
\* until SetMerchantAccount is called its merchant account is empty.
C8_DefaultCurrency ==
    /\ setCur = NotSet => GetCurrency(a) = "EUR" /\ a.Currency = "EUR"
    /\ setAcct = NotSet => a.MerchantAccount = ""

C8_Witness ==
    /\ setCur = NotSet /\ setAcct # NotSet /\ a.Logger # "nil"
    /\ a.Credentials.Hmac # ""
    /\ \E i \in Callers : calls[i].pc = "done" /\ calls[i].sends = 1

\* C9: the getters return the argument of the most recent setter, and each
\* of SetCurrency, SetMerchantAccount and AttachLogger leaves the other
\* fields of the instance unchanged.
C9_SettersRoundTrip ==
    /\ [](/\ setCur # NotSet => GetCurrency(a) = setCur
          /\ setAcct # NotSet => GetMerchantAccount(a) = setAcct)
    /\ [][(\E c \in Currencies : SetCurrency(c)) =>
             /\ a'.MerchantAccount = a.MerchantAccount
             /\ a'.Logger = a.Logger
             /\ a'.Credentials = a.Credentials]_vars
    /\ [][(\E m \in Accounts : SetMerchantAccount(m)) =>
             /\ a'.Currency = a.Currency
             /\ a'.Logger = a.Logger
             /\ a'.Credentials = a.Credentials]_vars
    /\ [][(\E l \in Loggers : AttachLogger(l)) =>
             /\ a'.Currency = a.Currency
             /\ a'.MerchantAccount = a.MerchantAccount
             /\ a'.Credentials = a.Credentials]_vars

C9_Witness ==
    /\ setCur = "USD" /\ GetCurrency(a) = "USD"
    /\ setAcct = "M2" /\ GetMerchantAccount(a) = "M2"
    /\ a.Logger = "logger"

\* C10: execute returns exactly one of a response and an error; the response
\* only when the entity was serialized, the request built and sent, the body
\* read and the reply not classified as an error; and nothing was sent when
\* serialization or request construction failed.
Serialized(c) == c.entity.kind = "struct"

RequestBuilt(c) == c.method # "%zz"

C10_ExactlyOneResult ==
    \A i \in Callers :
        LET c == calls[i]
            ok == /\ Serialized(c) /\ RequestBuilt(c)
                  /\ c.sends = 1
                  /\ ~c.net.transportErr /\ ~c.net.readErr
                  /\ handleHTTPError(Response(c.net.status, ReplyBody)) = "nil"
        IN  c.fn = "execute" /\ c.pc = "done" =>
               /\ Succeeded(c.ret) \/ Failed(c.ret)
               /\ Succeeded(c.ret) <=> ok
               /\ ~Serialized(c) \/ ~RequestBuilt(c) => c.sends = 0

C10_Witness ==
    \E i, j \in Callers :
        /\ calls[i].fn = "execute" /\ calls[i].pc = "done" /\ Succeeded(calls[i].ret)
        /\ calls[j].fn = "execute" /\ calls[j].pc = "done" /\ Failed(calls[j].ret)
        /\ calls[j].net.status = 404

====
